---- MODULE Spec2Model ----
(***************************************************************************)
(* Model of the exec-session stream layer of the AMS SDK:                  *)
(*   - ExecuteContainer          (pkg/ams/client/container.go)             *)
(*   - ReaderToChannel, WebsocketSendStreamWithContext,                    *)
(*     WebsocketRecvStream       (pkg/network, second half of the same     *)
(*                                source file, and shared/network.go)      *)
(*   - WebsocketMirror, WebsocketConsoleMirror, defaultReader,             *)
(*     defaultWriter, WebsocketProxy   (the same two places)               *)
(* Goroutines are processes with a program counter; an unbuffered channel  *)
(* send is a rendezvous: it completes only in a step that the receiver     *)
(* takes part in.  Bytes are identified by their position in the source    *)
(* stream, so a chunk is an interval [from, from+len) of positions.        *)
(***************************************************************************)
EXTENDS Integers, Sequences, FiniteSets, TLC

\* ------------------------------------------------------------------ bounds
\* Read calls the local source answers before it must report an error.
MaxReads == 3
\* Messages the remote side puts on one connection of a stand-alone pump.
MaxMsgs == 4
\* Messages the remote side sends, in all, during one exec session.
MaxSessionMsgs == 1
\* Read calls local stdin answers with data during one exec session.
MaxSessionReads == 1
\* Messages the remote side puts on one connection of a proxy.
MaxProxyMsgs == 2

\* --------------------------------------------------------------- constants
\* readSize := 128 * 1024, also the floor of bufferSize
readSize == 128 * 1024

\* Buffer sizes callers pass (-1 is what the exec session passes).
BufferSizes == {-1, readSize, 2 * readSize + 1, 3 * readSize}
\* Byte counts one Read may return (0 <= nr <= len(read) = readSize).
ReadLens == {0, 1, readSize}
\* Payloads of inbound binary messages.
Payloads == {<<1>>, <<2, 3>>}

Chan == {"control", "0", "1", "2"}
\* The connections: one per channel of an exec session, and the two
\* connections handed to WebsocketProxy.
Conns == Chan \cup {"source", "target"}
\* S0: outbound pump on channel 0; R0, R1, R2: inbound pumps on 0, 1, 2.
Pump == {"S0", "R0", "R1", "R2"}
ConnOf(p) == CASE p = "S0" -> "0" [] p = "R0" -> "0" [] p = "R1" -> "1" [] p = "R2" -> "2"

VARIABLES
    inp,        \* the call's inputs (arguments, metadata, what is nil)
    mainPc,     \* position of the caller's thread inside ExecuteContainer
    ret,        \* what ExecuteContainer returned: "none", "ok", "err"
    conn,       \* per channel: the websocket connection
    conns,      \* the conns slice of the non-interactive branch
    dones,      \* keys of the dones map of the non-interactive branch
    ctl,        \* the detached control handler goroutine: "none" or "running"
                \* (args.Control is the caller's code; it is only started here)
    co,         \* the session goroutine (the Coordinator): [pc, cur, left, idx]
    dataDone,   \* args.DataDone: [st, closes, sends]
    stdin,      \* args.Stdin: [st, closes]
    panicked,   \* a goroutine panicked: the process is gone
    pump,       \* per pump: [pc, sends, closed]
    rtc,        \* the ReaderToChannel producer goroutine
    src,        \* the local source read by ReaderToChannel
    delivered,  \* chunks received from the ReaderToChannel queue, in order
    written,    \* per inbound pump: bytes written to its local writer
    ctxDone,    \* the cancellation signal of WebsocketSendStreamWithContext
    mir,        \* the two halves of WebsocketMirror / WebsocketConsoleMirror
    prx,        \* the goroutines of WebsocketProxy
    log         \* observations used to state properties (history)

vars == <<inp, mir, prx, mainPc, ret, conn, conns, dones, ctl, co,
          dataDone, stdin, panicked, pump, rtc, src, delivered, written,
          ctxDone, log>>

\* ------------------------------------------------------------------ helpers
\* The first n elements of s: what a short Write leaves in the local writer.
Prefix(s, n) == SubSeq(s, 1, n)

\* ---------------------------------------------------------- ReaderToChannel
\* if bufferSize <= 128*1024 { bufferSize = 128 * 1024 }
EffectiveBufferSize(bufferSize) ==
    IF bufferSize <= 128 * 1024 THEN 128 * 1024 ELSE bufferSize

\* Mutant of BufferFull: a chunk is handed over as soon as it holds a byte.
BufferFullAnyByte(offset, bufferSize) ==
    offset > 0

\* offset > 0 && (offset+readSize >= bufferSize)
BufferFull(offset, bufferSize) ==
    offset > 0 /\ offset + readSize >= bufferSize

RtcIdle == [pc |-> "none", copy |-> "network", bufferSize |-> 0, offset |-> 0,
            base |-> 0, errSeen |-> FALSE]

\* ch := make(chan []byte); go func() { readSize, offset, buf := ... }
RtcStart(copy, bufferSize) ==
    [pc |-> "read", copy |-> copy, bufferSize |-> EffectiveBufferSize(bufferSize),
     offset |-> 0, base |-> 0, errSeen |-> FALSE]

SrcIdle == [pos |-> 0, reads |-> 0, ended |-> FALSE]

\* The results r.Read(read) may give: nr bytes and an error or none.  A closed
\* source only fails; a source that has answered MaxReads reads must fail.
ReadResults ==
    IF stdin.st = "closed" THEN {[nr |-> 0, err |-> TRUE]}
    ELSE IF inp.mode \in {"exec", "mirror", "console"}
    THEN {[nr |-> 0, err |-> TRUE]} \cup
         (IF src.reads < MaxSessionReads THEN {[nr |-> 1, err |-> FALSE]} ELSE {})
    ELSE {[nr |-> n, err |-> e] : n \in ReadLens,
                                  e \in IF src.reads < MaxReads THEN BOOLEAN ELSE {TRUE}}

\* pkg/network copy, from producer state st: an error closes the queue at
\* once, whatever was read.
NetworkAfterReadOf(st, r) ==
    IF r.err
    THEN [st EXCEPT !.pc = "closed", !.errSeen = TRUE]
    ELSE LET off == st.offset + r.nr IN
         IF BufferFull(off, st.bufferSize)
         THEN [st EXCEPT !.pc = "send", !.offset = off]
         ELSE [st EXCEPT !.offset = off]

NetworkAfterRead(r) == NetworkAfterReadOf(rtc, r)

\* shared copy, from producer state st: the bytes read so far are handed over
\* before the queue closes.
SharedAfterReadOf(st, r) ==
    LET off == st.offset + r.nr IN
    IF off > 0 /\ (off + readSize >= st.bufferSize \/ r.err)
    THEN [st EXCEPT !.pc = "send", !.offset = off, !.errSeen = r.err]
    ELSE IF r.err
         THEN [st EXCEPT !.pc = "closed", !.offset = off, !.errSeen = TRUE]
         ELSE [st EXCEPT !.offset = off]

SharedAfterRead(r) == SharedAfterReadOf(rtc, r)

AfterRead(r) ==
    IF rtc.copy = "network" THEN NetworkAfterRead(r) ELSE SharedAfterRead(r)

\* nr, err := r.Read(read) and what follows up to the next blocking point.
RtcRead ==
    /\ ~panicked
    /\ rtc.pc = "read"
    /\ \E r \in ReadResults :
         /\ rtc' = AfterRead(r)
         /\ src' = [pos |-> src.pos + r.nr, reads |-> src.reads + 1, ended |-> r.err]
         /\ log' = IF inp.mode = "rtc" THEN [log EXCEPT !.reads = Append(@, r)] ELSE log
    /\ UNCHANGED <<inp, mir, prx, mainPc, ret, conn, conns, dones, ctl, co,
                   dataDone, stdin, panicked, pump, delivered, written, ctxDone>>

\* The chunk the producer offers on the queue while it is blocked on ch <- buf[0:offset].
PendingChunk == [from |-> rtc.base, len |-> rtc.offset]

\* Producer state st once the chunk it offers has been received, when every
\* byte read since the last chunk is in that chunk.
AfterSendOf(st) ==
    [st EXCEPT !.pc = IF st.errSeen THEN "closed" ELSE "read",
               !.offset = 0,
               !.base = st.base + st.offset]

\* The chunks a copy of ReaderToChannel delivers from producer state st when
\* its Read calls return reads, one after the other, and every chunk offered
\* is received.
RECURSIVE RunCopy(_, _, _)
RunCopy(copy, st, reads) ==
    IF reads = <<>> \/ st.pc = "closed" THEN <<>>
    ELSE LET a == IF copy = "network" THEN NetworkAfterReadOf(st, Head(reads))
                  ELSE SharedAfterReadOf(st, Head(reads))
         IN  IF a.pc = "send"
             THEN <<[from |-> a.base, len |-> a.offset]>>
                      \o RunCopy(copy, AfterSendOf(a), Tail(reads))
             ELSE RunCopy(copy, a, Tail(reads))

\* The producer's state once its pending chunk has been received:
\* offset = 0, a fresh buf; the shared copy closes the queue after an error.
RtcAfterSend ==
    [rtc EXCEPT !.pc = IF rtc.errSeen THEN "closed" ELSE "read",
                !.offset = 0,
                !.base = src.pos]

\* ------------------------------------------------------------- connections
ConnNone == [st |-> "none", opens |-> 0, closes |-> 0, inq |-> <<>>, nIn |-> 0,
             rdErr |-> FALSE, sent |-> <<>>]
ConnOpen == [ConnNone EXCEPT !.st = "open", !.opens = 1]

\* conn.Close()
CloseConn(cs, c) == [cs EXCEPT ![c].st = "closed", ![c].closes = @ + 1]

\* Messages the remote side may send.  bad: reading the payload fails midway.
BinaryMsgs == {[mt |-> "binary", data |-> d, bad |-> FALSE] : d \in Payloads}
ControlMsgs == {[mt |-> "text", data |-> <<>>, bad |-> FALSE],
                [mt |-> "close", data |-> <<>>, bad |-> FALSE]}
Msgs == BinaryMsgs \cup ControlMsgs \cup {[mt |-> "binary", data |-> <<1>>, bad |-> TRUE]}
SessionMsgs == {[mt |-> "binary", data |-> <<1>>, bad |-> FALSE],
                [mt |-> "text", data |-> <<>>, bad |-> FALSE]}
ProxyMsgs == SessionMsgs \cup {[mt |-> "binary", data |-> <<1>>, bad |-> TRUE]}

\* conn.NextWriter(websocket.BinaryMessage): a transport may fail at any call.
NextWriterOutcomes(c) == {"ok", "err"}

\* w.Write(buf); w.Close(): the frame reaches the connection ("sent"), Write
\* reports an error ("err"), or Write succeeds and the flush of w.Close(),
\* whose error the code drops, fails ("lost").  Nothing reaches a closed conn.
\* The frames that reached the connection are recorded for a stand-alone pump;
\* nothing in an exec session reads them.
WriteOutcomes(c) == IF conn[c].st = "open" THEN {"sent", "lost", "err"} ELSE {"lost", "err"}

\* w.Write(buf) on the local writer: all of buf, fewer bytes, or all with an error.
LocalWriteOutcomes == {"full", "short", "err"}

\* A frame handed to connection c: appended to what the connection was given.
SentFrame(cs, c, mt, chunk) ==
    [cs EXCEPT ![c].sent = Append(@, [mt |-> mt, chunk |-> chunk])]

\* Mutant of WriteMessage: sending the close message also closes the connection.
WriteMessageClosing(cs, c, mt) ==
    IF cs[c].st # "open" THEN cs
    ELSE IF mt = "close"
         THEN CloseConn(SentFrame(cs, c, mt, [from |-> 0, len |-> 0]), c)
         ELSE SentFrame(cs, c, mt, [from |-> 0, len |-> 0])

\* conn.WriteMessage(mt, ...) with an empty or fixed payload; its error is
\* dropped by every caller.  A closed connection takes nothing.
WriteMessage(cs, c, mt) ==
    IF cs[c].st = "open" THEN SentFrame(cs, c, mt, [from |-> 0, len |-> 0]) ELSE cs

\* -------------------------------------------------------------------- pumps
PumpNone == [pc |-> "none", sends |-> 0, closed |-> FALSE]

\* Times the Completion Signal of pump p has fired: a completed send or a close.
Fired(p) == pump[p].sends + (IF pump[p].closed THEN 1 ELSE 0)

\* WebsocketSendStreamWithContext up to its return: ch := make(chan bool);
\* if r == nil { close(ch); return ch }; go func() { in := ReaderToChannel(...) }
SendStreamStart(readerNil) ==
    IF readerNil
    THEN [pc |-> "done", sends |-> 0, closed |-> TRUE]
    ELSE [PumpNone EXCEPT !.pc = "run"]

\* WebsocketRecvStream up to its return: ch := make(chan bool); go func() {...}
RecvStreamStart == [PumpNone EXCEPT !.pc = "run"]

\* The history of a pump leaving its loop: the stand-alone harness records
\* which exit path was taken, an exec session only a barrier seen on channel 0.
LogExit(p, reason) ==
    IF inp.mode = "exec"
    THEN [log EXCEPT !.barrier = @ \/ (p = "R0" /\ reason = "barrier")]
    ELSE [log EXCEPT !.why = reason]

\* Mutant of ToSignal: after a short local write the goroutine returns
\* without sending on ch.
ToSignalReturnOnShortWrite(p, reason) ==
    /\ pump' = [pump EXCEPT ![p].pc = IF reason = "shortwrite" THEN "done" ELSE "signal"]
    /\ log' = LogExit(p, reason)

\* The pump leaves its loop and blocks on ch <- true.
ToSignal(p, reason) ==
    /\ pump' = [pump EXCEPT ![p].pc = "signal"]
    /\ log' = LogExit(p, reason)

\* ch <- true completes: some goroutine receives from the pump's channel.
SignalReceived(p) == [pump EXCEPT ![p].pc = "done", ![p].sends = @ + 1]

PumpFrame == <<inp, mir, prx, mainPc, ret, conns, dones, ctl, co, dataDone, stdin, panicked,
               ctxDone>>

\* The outbound pump leaves its loop with the connections as cs.  The shared
\* copy then sends the text barrier, conn.WriteMessage(websocket.TextMessage,
\* []byte{}); the pkg/network copy goes straight to ch <- true.
LeaveSendLoop(p, reason, cs) ==
    /\ ToSignal(p, reason)
    /\ conn' = IF inp.copy = "shared" THEN WriteMessage(cs, ConnOf(p), "text") ELSE cs

\* The stand-alone harness records a failed Write, a frame that reached the
\* connection after an earlier failed Write, and a frame that reached it after
\* the cancellation signal had fired.
LogWrite(wr) ==
    IF inp.mode = "exec" THEN log
    ELSE [log EXCEPT !.wrFailed = @ \/ wr = "err",
                     !.late = @ \/ (log.wrFailed /\ wr = "sent"),
                     !.afterCancel = @ \/ (ctxDone /\ wr = "sent")]

\* case buf, ok := <-in with ok: the rendezvous with the producer's ch <- buf[0:offset],
\* then NextWriter, Write, Close.  In the pkg/network copy a failed Write is only
\* logged and the loop goes on; in the shared copy it breaks the loop.
SendStreamChunk(p) ==
    /\ ~panicked
    /\ pump[p].pc = "run"
    /\ rtc.pc = "send"
    /\ delivered' = Append(delivered, PendingChunk)
    /\ rtc' = RtcAfterSend
    /\ \E nw \in NextWriterOutcomes(ConnOf(p)) :
         IF nw = "err"
         THEN LeaveSendLoop(p, "nextwriter", conn)
         ELSE \E wr \in WriteOutcomes(ConnOf(p)) :
                LET cs == IF wr = "sent" /\ inp.mode # "exec"
                          THEN SentFrame(conn, ConnOf(p), "binary", PendingChunk)
                          ELSE conn
                IN  IF wr = "err" /\ inp.copy = "shared"
                    THEN LeaveSendLoop(p, "write", cs)
                    ELSE /\ conn' = cs
                         /\ pump' = pump
                         /\ log' = LogWrite(wr)
    /\ UNCHANGED <<src, written>>
    /\ UNCHANGED PumpFrame

\* case buf, ok := <-in with !ok: the queue is closed.
SendStreamClosed(p) ==
    /\ ~panicked
    /\ pump[p].pc = "run"
    /\ rtc.pc = "closed"
    /\ LeaveSendLoop(p, "eof", conn)
    /\ UNCHANGED <<rtc, src, delivered, written>>
    /\ UNCHANGED PumpFrame

\* case <-ctx.Done(): only WebsocketSendStreamWithContext of pkg/network selects on it.
SendStreamCancelled(p) ==
    /\ ~panicked
    /\ pump[p].pc = "run"
    /\ inp.copy = "network"
    /\ ctxDone
    /\ ToSignal(p, "cancel")
    /\ UNCHANGED <<conn, rtc, src, delivered, written>>
    /\ UNCHANGED PumpFrame

\* The local writer of an inbound pump is nil.
WriterNil(p) == IF p = "R2" THEN ~inp.Stderr ELSE ~inp.Stdout

\* Mutant of RecvMessage: a text (barrier) message is skipped, not a stop.
RecvMessageIgnoringBarrier(p, m) ==
    IF m.mt = "close" THEN /\ ToSignal(p, "close") /\ written' = written
    ELSE IF m.mt = "text" \/ WriterNil(p) THEN UNCHANGED <<pump, log, written>>
    ELSE IF m.bad THEN /\ ToSignal(p, "readall") /\ written' = written
    ELSE /\ written' = [written EXCEPT ![p] = @ \o m.data]
         /\ UNCHANGED <<pump, log>>

\* Mutant of RecvMessage: without a local writer the loop is left after the
\* first binary message.
RecvMessageStoppingWithoutWriter(p, m) ==
    IF m.mt = "close" THEN /\ ToSignal(p, "close") /\ written' = written
    ELSE IF m.mt = "text" THEN /\ ToSignal(p, "barrier") /\ written' = written
    ELSE IF m.bad THEN /\ ToSignal(p, "readall") /\ written' = written
    ELSE IF WriterNil(p) THEN /\ ToSignal(p, "nowriter") /\ written' = written
    ELSE \E w \in LocalWriteOutcomes :
           CASE w = "full"  -> /\ written' = [written EXCEPT ![p] = @ \o m.data]
                               /\ UNCHANGED <<pump, log>>
             [] w = "short" -> /\ written' = [written EXCEPT ![p] =
                                                 @ \o Prefix(m.data, Len(m.data) - 1)]
                               /\ ToSignal(p, "shortwrite")
             [] w = "err"   -> /\ written' = [written EXCEPT ![p] = @ \o m.data]
                               /\ ToSignal(p, "writeerr")

\* One iteration of the loop of WebsocketRecvStream on a received message m.
RecvMessage(p, m) ==
    IF m.mt = "close" THEN /\ ToSignal(p, "close") /\ written' = written
    ELSE IF m.mt = "text" THEN /\ ToSignal(p, "barrier") /\ written' = written
    ELSE IF m.bad THEN /\ ToSignal(p, "readall") /\ written' = written
    ELSE IF WriterNil(p) THEN UNCHANGED <<pump, log, written>>
    ELSE \E w \in LocalWriteOutcomes :
           CASE w = "full"  -> /\ written' = [written EXCEPT ![p] = @ \o m.data]
                               /\ UNCHANGED <<pump, log>>
             [] w = "short" -> /\ written' = [written EXCEPT ![p] =
                                                 @ \o Prefix(m.data, Len(m.data) - 1)]
                               /\ ToSignal(p, "shortwrite")
             [] w = "err"   -> /\ written' = [written EXCEPT ![p] = @ \o m.data]
                               /\ ToSignal(p, "writeerr")

\* mt, r, err := conn.NextReader() returns a message.
RecvStreamMessage(p) ==
    /\ ~panicked
    /\ pump[p].pc = "run"
    /\ conn[ConnOf(p)].st = "open"
    /\ conn[ConnOf(p)].inq # <<>>
    /\ RecvMessage(p, Head(conn[ConnOf(p)].inq))
    /\ conn' = [conn EXCEPT ![ConnOf(p)].inq = Tail(@)]
    /\ UNCHANGED <<rtc, src, delivered>>
    /\ UNCHANGED PumpFrame

\* mt, r, err := conn.NextReader() returns an error: the transport failed, the
\* peer hung up, or the connection was closed locally.
RecvStreamError(p) ==
    /\ ~panicked
    /\ pump[p].pc = "run"
    /\ \/ conn[ConnOf(p)].st = "closed"
       \/ conn[ConnOf(p)].inq = <<>> /\ conn[ConnOf(p)].rdErr
    /\ ToSignal(p, "transport")
    /\ UNCHANGED <<conn, rtc, src, delivered, written>>
    /\ UNCHANGED PumpFrame

\* --------------------------------------------------------- the remote side
\* A goroutine reads connection c (an inbound pump, the writer half of a
\* mirror, a forwarding task): only then is what the peer does observed.
Listening(c) ==
    \/ \E p \in {"R0", "R1", "R2"} : ConnOf(p) = c /\ pump[p].pc = "run"
    \/ c = "0" /\ mir.wr = "run"
    \/ c = "source" /\ prx.fwd["send"] = "run"
    \/ c = "target" /\ prx.fwd["recv"] = "run"

MessagesSent == conn["0"].nIn + conn["1"].nIn + conn["2"].nIn

\* The peer may still send on connection c.
MsgBudgetLeft(c) ==
    CASE inp.mode = "pump"  -> conn[c].nIn < MaxMsgs
      [] inp.mode = "proxy" -> conn[c].nIn < MaxProxyMsgs
      [] OTHER              -> MessagesSent < MaxSessionMsgs

\* The messages the peer chooses from.
PeerMsgs ==
    CASE inp.mode = "exec"  -> SessionMsgs
      [] inp.mode = "proxy" -> ProxyMsgs
      [] OTHER              -> Msgs

\* The peer sends a message on an open connection.  The stand-alone harness
\* records the messages in their order of arrival.
RemoteSend(c) ==
    /\ ~panicked
    /\ conn[c].st = "open"
    /\ ~conn[c].rdErr
    /\ Listening(c)
    /\ MsgBudgetLeft(c)
    /\ \E m \in PeerMsgs :
         /\ conn' = [conn EXCEPT ![c].inq = Append(@, m), ![c].nIn = @ + 1]
         /\ log' = IF inp.mode = "pump" THEN [log EXCEPT !.arrived = Append(@, m)]
                   ELSE log
    /\ UNCHANGED <<inp, mir, prx, mainPc, ret, conns, dones, ctl, co, dataDone, stdin, panicked,
                   pump, rtc, src, delivered, written, ctxDone>>

\* The peer hangs up or the transport fails: reads fail once the queue is drained.
RemoteFail(c) ==
    /\ ~panicked
    /\ conn[c].st = "open"
    /\ ~conn[c].rdErr
    /\ Listening(c)
    /\ conn' = [conn EXCEPT ![c].rdErr = TRUE]
    /\ UNCHANGED <<inp, mir, prx, mainPc, ret, conns, dones, ctl, co, dataDone, stdin, panicked,
                   pump, rtc, src, delivered, written, ctxDone, log>>

\* ------------------------------ WebsocketMirror and WebsocketConsoleMirror
\* rd, wr: the reader half (defaultReader, or the goroutine of
\* WebsocketConsoleMirror, which is the same code) and the writer half
\* (defaultWriter); rdSig, wrSig: values sent on readDone and writeDone, both
\* make(chan bool, 1); rdGot, wrGot: values the caller received from them;
\* wCloses: calls of w.Close(); rdWhy, wrWhy: how each half left its loop.
MirrorNone == [rd |-> "none", wr |-> "none", rdSig |-> 0, wrSig |-> 0,
               rdGot |-> 0, wrGot |-> 0, wCloses |-> 0,
               rdWhy |-> "none", wrWhy |-> "none"]

\* go ReadFunc(conn, r, readDone); go WriteFunc(conn, w, writeDone)
MirrorStart == [MirrorNone EXCEPT !.rd = "run", !.wr = "run"]

MirrorFrame == <<inp, prx, mainPc, ret, conns, dones, ctl, co, dataDone, panicked, pump,
                 ctxDone, log>>

\* r.Close()
CloseReader == [stdin EXCEPT !.st = "closed", !.closes = @ + 1]

\* The reader half after a failed NextWriter or Write, the connections being
\* cs: the close message, readDone <- true, r.Close().
ReaderBreak(reason, cs) ==
    /\ mir.rdSig - mir.rdGot < 1
    /\ conn' = WriteMessage(cs, "0", "close")
    /\ mir' = [mir EXCEPT !.rd = "done", !.rdSig = @ + 1, !.rdWhy = reason]
    /\ stdin' = CloseReader

\* buf, ok := <-in with ok, then NextWriter, Write, Close.
DefaultReaderChunk ==
    /\ mir.rd = "run"
    /\ rtc.pc = "send"
    /\ delivered' = Append(delivered, PendingChunk)
    /\ rtc' = RtcAfterSend
    /\ \E nw \in NextWriterOutcomes("0") :
         IF nw = "err"
         THEN ReaderBreak("nextwriter", conn)
         ELSE \E wr \in WriteOutcomes("0") :
                LET cs == IF wr = "sent"
                          THEN SentFrame(conn, "0", "binary", PendingChunk)
                          ELSE conn
                IN  IF wr = "err"
                    THEN ReaderBreak("write", cs)
                    ELSE /\ conn' = cs
                         /\ UNCHANGED <<mir, stdin>>
    /\ UNCHANGED <<src, written>>
    /\ UNCHANGED MirrorFrame

\* buf, ok := <-in with !ok: r.Close(), the text barrier, readDone <- true, return.
DefaultReaderClosed ==
    /\ mir.rd = "run"
    /\ rtc.pc = "closed"
    /\ mir.rdSig - mir.rdGot < 1
    /\ stdin' = CloseReader
    /\ conn' = WriteMessage(conn, "0", "text")
    /\ mir' = [mir EXCEPT !.rd = "done", !.rdSig = @ + 1, !.rdWhy = "eof"]
    /\ UNCHANGED <<rtc, src, delivered, written>>
    /\ UNCHANGED MirrorFrame

\* The writer half leaves its loop: writeDone <- true; w.Close().
WriterLeave(reason) ==
    /\ mir.wrSig - mir.wrGot < 1
    /\ mir' = [mir EXCEPT !.wr = "done", !.wrSig = @ + 1, !.wCloses = @ + 1,
                          !.wrWhy = reason]

\* One iteration of the loop of defaultWriter on a received message m.
DefaultWriterOn(m) ==
    IF m.mt = "close" THEN /\ WriterLeave("close") /\ written' = written
    ELSE IF m.mt = "text" THEN /\ WriterLeave("barrier") /\ written' = written
    ELSE IF m.bad THEN /\ WriterLeave("readall") /\ written' = written
    ELSE \E w \in LocalWriteOutcomes :
           CASE w = "full"  -> /\ written' = [written EXCEPT !["R0"] = @ \o m.data]
                               /\ mir' = mir
             [] w = "short" -> /\ written' = [written EXCEPT !["R0"] =
                                                 @ \o Prefix(m.data, Len(m.data) - 1)]
                               /\ WriterLeave("shortwrite")
             [] w = "err"   -> /\ written' = [written EXCEPT !["R0"] = @ \o m.data]
                               /\ WriterLeave("writeerr")

\* mt, r, err := conn.NextReader() returns a message.
DefaultWriterMessage ==
    /\ mir.wr = "run"
    /\ conn["0"].st = "open"
    /\ conn["0"].inq # <<>>
    /\ DefaultWriterOn(Head(conn["0"].inq))
    /\ conn' = [conn EXCEPT !["0"].inq = Tail(@)]
    /\ UNCHANGED <<stdin, rtc, src, delivered>>
    /\ UNCHANGED MirrorFrame

\* mt, r, err := conn.NextReader() returns an error.
DefaultWriterError ==
    /\ mir.wr = "run"
    /\ \/ conn["0"].st = "closed"
       \/ conn["0"].inq = <<>> /\ conn["0"].rdErr
    /\ WriterLeave("transport")
    /\ UNCHANGED <<conn, stdin, rtc, src, delivered, written>>
    /\ UNCHANGED MirrorFrame

\* The caller receives from readDone (h = "rd") or writeDone (h = "wr").
MirrorReceive(h) ==
    /\ IF h = "rd"
       THEN /\ mir.rdSig - mir.rdGot > 0
            /\ mir' = [mir EXCEPT !.rdGot = @ + 1]
       ELSE /\ mir.wrSig - mir.wrGot > 0
            /\ mir' = [mir EXCEPT !.wrGot = @ + 1]
    /\ UNCHANGED <<conn, stdin, rtc, src, delivered, written>>
    /\ UNCHANGED MirrorFrame

\* ----------------------------------------------------------- WebsocketProxy
\* fwd: the two forwarding goroutines, "send" = forward(source, target, chSend)
\* and "recv" = forward(target, source, chRecv); closer: the goroutine that
\* selects on chSend and chRecv; fired: values received from the returned ch.
Fwd == {"send", "recv"}
InOf(f) == IF f = "send" THEN "source" ELSE "target"

\* Mutant of OutOf: both forwarding tasks write to target.
OutOfAlwaysTarget(f) == "target"

OutOf(f) == IF f = "send" THEN "target" ELSE "source"

ProxyNone == [fwd |-> [f \in Fwd |-> "none"], closer |-> "none", fired |-> 0]

\* go forward(source, target, chSend); go forward(target, source, chRecv); go func() {...}()
ProxyStart == [fwd |-> [f \in Fwd |-> "run"], closer |-> "select", fired |-> 0]

ProxyFrame == <<inp, mir, mainPc, ret, conns, dones, ctl, co, dataDone, stdin, panicked,
                pump, rtc, src, delivered, written, ctxDone, log>>

\* The forwarding task leaves its loop and blocks on ch <- true.
ForwardBreak(f) == [prx EXCEPT !.fwd[f] = "signal"]

\* One iteration of forward: in.NextReader() returns a message, then
\* out.NextWriter(mt), io.Copy(w, r), w.Close().
ForwardMessage(f) ==
    /\ prx.fwd[f] = "run"
    /\ conn[InOf(f)].st = "open"
    /\ conn[InOf(f)].inq # <<>>
    /\ LET m == Head(conn[InOf(f)].inq)
           cs == [conn EXCEPT ![InOf(f)].inq = Tail(@)]
       IN  \E nw \in NextWriterOutcomes(OutOf(f)) :
             IF nw = "err"
             THEN /\ prx' = ForwardBreak(f)
                  /\ conn' = cs
             ELSE IF m.bad
             THEN /\ prx' = ForwardBreak(f)
                  /\ conn' = cs
             ELSE \E wr \in WriteOutcomes(OutOf(f)) :
                    /\ prx' = IF wr = "err" THEN ForwardBreak(f) ELSE prx
                    /\ conn' = IF wr = "sent"
                               THEN SentFrame(cs, OutOf(f), m.mt,
                                              [from |-> 0, len |-> Len(m.data)])
                               ELSE cs
    /\ UNCHANGED ProxyFrame

\* in.NextReader() returns an error: the peer hung up, the transport failed,
\* or the connection was closed locally.
ForwardError(f) ==
    /\ prx.fwd[f] = "run"
    /\ \/ conn[InOf(f)].st = "closed"
       \/ conn[InOf(f)].inq = <<>> /\ conn[InOf(f)].rdErr
    /\ prx' = ForwardBreak(f)
    /\ UNCHANGED conn
    /\ UNCHANGED ProxyFrame

\* select { case <-chSend: case <-chRecv: } meets the ch <- true of one task.
CloserSelect ==
    /\ prx.closer = "select"
    /\ \E f \in Fwd :
         /\ prx.fwd[f] = "signal"
         /\ prx' = [prx EXCEPT !.fwd[f] = "done", !.closer = "closeSource"]
    /\ UNCHANGED conn
    /\ UNCHANGED ProxyFrame

\* source.Close()
CloserCloseSource ==
    /\ prx.closer = "closeSource"
    /\ conn' = CloseConn(conn, "source")
    /\ prx' = [prx EXCEPT !.closer = "closeTarget"]
    /\ UNCHANGED ProxyFrame

\* Mutant of CloserCloseTarget: the goroutine goes to ch <- true without
\* closing target.
CloserLeavesTargetOpen ==
    /\ prx.closer = "closeTarget"
    /\ conn' = conn
    /\ prx' = [prx EXCEPT !.closer = "signal"]
    /\ UNCHANGED ProxyFrame

\* target.Close(), then the goroutine blocks on ch <- true.
CloserCloseTarget ==
    /\ prx.closer = "closeTarget"
    /\ conn' = CloseConn(conn, "target")
    /\ prx' = [prx EXCEPT !.closer = "signal"]
    /\ UNCHANGED ProxyFrame

\* The caller's receive from the returned channel meets ch <- true.
ProxyReceive ==
    /\ prx.closer = "signal"
    /\ prx' = [prx EXCEPT !.closer = "done", !.fired = @ + 1]
    /\ UNCHANGED conn
    /\ UNCHANGED ProxyFrame

\* --------------------------------------------------------- ExecuteContainer
\* Goroutines alive: pumps that run a goroutine, and the control handler.
TasksStarted ==
    {p \in Pump : pump[p].pc # "none" /\ ~pump[p].closed}
        \cup (IF ctl # "none" THEN {"control"} ELSE {})

OpenConns == {c \in Chan : conn[c].st = "open"}

\* Pumps bound to connection c that have not finished signalling.
Unfinished(c) == {p \in Pump : ConnOf(p) = c /\ pump[p].pc \in {"run", "signal"}}

\* return nil, err
ReturnErr ==
    /\ mainPc' = "returned"
    /\ ret' = "err"
    /\ log' = [log EXCEPT !.errOpen = OpenConns, !.errTasks = TasksStarted]

\* return op, nil
ReturnOk ==
    /\ mainPc' = "returned"
    /\ ret' = "ok"
    /\ log' = log

\* Mutant of CloseDataDone: DataDone is left as it is.
CloseDataDoneSkipped ==
    /\ dataDone' = dataDone
    /\ panicked' = panicked

\* close(args.DataDone) under if args.DataDone != nil; closing twice panics.
CloseDataDone ==
    IF dataDone.st = "nil" THEN /\ dataDone' = dataDone /\ panicked' = panicked
    ELSE IF dataDone.st = "closed" THEN /\ dataDone' = dataDone /\ panicked' = TRUE
    ELSE /\ dataDone' = [dataDone EXCEPT !.st = "closed", !.closes = @ + 1]
         /\ panicked' = panicked

\* Mutant of Validate: the answer of HasExtension is not looked at.
ValidateIgnoringExtension ==
    /\ ~panicked
    /\ mainPc = "start"
    /\ IF inp.pre \notin {"ok", "noext"} THEN ReturnErr
       ELSE IF ~inp.args THEN ReturnOk
       ELSE /\ mainPc' = "control" /\ ret' = ret /\ log' = log
    /\ UNCHANGED <<inp, mir, prx, conn, conns, dones, ctl, co, dataDone, stdin, panicked, pump,
                   rtc, src, delivered, written, ctxDone>>

\* The argument checks, HasExtension, json.Marshal and QueryOperation; if args != nil.
Validate ==
    /\ ~panicked
    /\ mainPc = "start"
    /\ IF inp.pre # "ok" THEN ReturnErr
       ELSE IF ~inp.args THEN ReturnOk
       ELSE /\ mainPc' = "control" /\ ret' = ret /\ log' = log
    /\ UNCHANGED <<inp, mir, prx, conn, conns, dones, ctl, co, dataDone, stdin, panicked, pump,
                   rtc, src, delivered, written, ctxDone>>

\* if args.Control != nil && fds["control"] != "" { conn, err := ...; go args.Control(conn) }
OpenControl ==
    /\ ~panicked
    /\ mainPc = "control"
    /\ IF inp.Control /\ "control" \in inp.fds
       THEN \E ok \in BOOLEAN :
              IF ok
              THEN /\ conn' = [conn EXCEPT !["control"] = ConnOpen]
                   /\ ctl' = "running"
                   /\ mainPc' = "mode" /\ ret' = ret /\ log' = log
              ELSE /\ ReturnErr
                   /\ UNCHANGED <<conn, ctl>>
       ELSE /\ mainPc' = "mode"
            /\ UNCHANGED <<conn, ctl, ret, log>>
    /\ UNCHANGED <<inp, mir, prx, conns, dones, co, dataDone, stdin, panicked, pump,
                   rtc, src, delivered, written, ctxDone>>

CoNone == [pc |-> "none", cur |-> "none", left |-> {}, idx |-> 0]

\* if details.Interactive: open channel 0 and start the session goroutine, or,
\* without local stdin or stdout, close DataDone.
Interactive ==
    /\ ~panicked
    /\ mainPc = "mode"
    /\ inp.interactive
    /\ IF inp.Stdin /\ inp.Stdout
       THEN \E ok \in BOOLEAN :
              IF ok
              THEN /\ conn' = [conn EXCEPT !["0"] = ConnOpen]
                   /\ co' = [CoNone EXCEPT !.pc = "i_start"]
                   /\ ReturnOk
                   /\ UNCHANGED <<dataDone, panicked>>
              ELSE /\ ReturnErr
                   /\ UNCHANGED <<conn, co, dataDone, panicked>>
       ELSE /\ CloseDataDone
            /\ ReturnOk
            /\ UNCHANGED <<conn, co>>
    /\ UNCHANGED <<inp, mir, prx, conns, dones, ctl, stdin, pump,
                   rtc, src, delivered, written, ctxDone>>

\* Handle stdin: open fds["0"], append to conns, dones[0] = WebsocketSendStream(...)
OpenStdin ==
    /\ ~panicked
    /\ mainPc = "mode"
    /\ ~inp.interactive
    /\ IF "0" \in inp.fds
       THEN \E ok \in BOOLEAN :
              IF ok
              THEN /\ conn' = [conn EXCEPT !["0"] = ConnOpen]
                   /\ conns' = Append(conns, "0")
                   /\ dones' = dones \cup {"S0"}
                   /\ pump' = [pump EXCEPT !["S0"] = SendStreamStart(~inp.Stdin)]
                   /\ rtc' = IF inp.Stdin THEN RtcStart("network", inp.bufferSize) ELSE rtc
                   /\ mainPc' = "open1" /\ ret' = ret /\ log' = log
              ELSE /\ ReturnErr
                   /\ UNCHANGED <<conn, conns, dones, pump, rtc>>
       ELSE /\ mainPc' = "open1"
            /\ UNCHANGED <<conn, conns, dones, pump, rtc, ret, log>>
    /\ UNCHANGED <<inp, mir, prx, ctl, co, dataDone, stdin, panicked, src, delivered, written,
                   ctxDone>>

\* Handle stdout / stderr: open fds[c], append to conns, dones[c] = WebsocketRecvStream(...)
OpenOutput(c, p, next) ==
    /\ ~panicked
    /\ IF c \in inp.fds
       THEN \E ok \in BOOLEAN :
              IF ok
              THEN /\ conn' = [conn EXCEPT ![c] = ConnOpen]
                   /\ conns' = Append(conns, c)
                   /\ dones' = dones \cup {p}
                   /\ pump' = [pump EXCEPT ![p] = RecvStreamStart]
                   /\ mainPc' = next /\ ret' = ret /\ log' = log
              ELSE /\ ReturnErr
                   /\ UNCHANGED <<conn, conns, dones, pump>>
       ELSE /\ mainPc' = next
            /\ UNCHANGED <<conn, conns, dones, pump, ret, log>>
    /\ UNCHANGED <<inp, mir, prx, ctl, co, dataDone, stdin, panicked, rtc, src, delivered,
                   written, ctxDone>>

OpenStdout == mainPc = "open1" /\ OpenOutput("1", "R1", "open2")

OpenStderr == mainPc = "open2" /\ OpenOutput("2", "R2", "spawn")

\* go func() { for i, chDone := range dones ... }(); return op, nil
SpawnWaiter ==
    /\ ~panicked
    /\ mainPc = "spawn"
    /\ co' = [CoNone EXCEPT !.pc = "n_range", !.left = dones]
    /\ ReturnOk
    /\ UNCHANGED <<inp, mir, prx, conn, conns, dones, ctl, dataDone, stdin, panicked, pump,
                   rtc, src, delivered, written, ctxDone>>

\* ----------------------------------------- the interactive session goroutine
CoFrame == <<inp, mir, prx, mainPc, ret, conns, dones, ctl, src, delivered, written, ctxDone>>

\* network.WebsocketSendStream(conn, args.Stdin, -1): the returned channel is
\* dropped; then WebsocketRecvStream(args.Stdout, conn) is started.
InteractiveStart ==
    /\ ~panicked
    /\ co.pc = "i_start"
    /\ pump' = [pump EXCEPT !["S0"] = SendStreamStart(~inp.Stdin),
                            !["R0"] = RecvStreamStart]
    /\ rtc' = RtcStart("network", inp.bufferSize)
    /\ co' = [co EXCEPT !.pc = "i_wait"]
    /\ UNCHANGED <<conn, dataDone, stdin, panicked, log>>
    /\ UNCHANGED CoFrame

\* <-network.WebsocketRecvStream(args.Stdout, conn)
InteractiveWait ==
    /\ ~panicked
    /\ co.pc = "i_wait"
    /\ pump["R0"].pc = "signal"
    /\ pump' = SignalReceived("R0")
    /\ co' = [co EXCEPT !.pc = "i_close"]
    /\ UNCHANGED <<conn, dataDone, stdin, panicked, rtc, log>>
    /\ UNCHANGED CoFrame

\* The history of a conn.Close() by the Coordinator on connection c.
LogClose(c) ==
    [log EXCEPT !.early = IF Unfinished(c) # {} THEN @ \cup {c} ELSE @,
                !.order = Append(@, c)]

\* conn.Close()
InteractiveClose ==
    /\ ~panicked
    /\ co.pc = "i_close"
    /\ conn' = CloseConn(conn, "0")
    /\ log' = LogClose("0")
    /\ co' = [co EXCEPT !.pc = "dd"]
    /\ UNCHANGED <<dataDone, stdin, panicked, pump, rtc>>
    /\ UNCHANGED CoFrame

\* if args.DataDone != nil { close(args.DataDone) }, and the goroutine ends.
SignalDataDone ==
    /\ ~panicked
    /\ co.pc = "dd"
    /\ CloseDataDone
    /\ co' = [co EXCEPT !.pc = "done"]
    /\ log' = [log EXCEPT !.order = Append(@, "DataDone")]
    /\ UNCHANGED <<conn, stdin, pump, rtc>>
    /\ UNCHANGED CoFrame

\* ------------------------------------- the non-interactive session goroutine
\* Mutant of WaiterRange: the stderr pump (key 2) is skipped like stdin.
WaiterRangeSkippingStderr ==
    /\ ~panicked
    /\ co.pc = "n_range"
    /\ IF co.left = {}
       THEN co' = [co EXCEPT !.pc = "n_stdin"]
       ELSE \E i \in co.left :
              co' = [co EXCEPT !.left = @ \ {i},
                               !.cur = IF i \in {"S0", "R2"} THEN "none" ELSE i,
                               !.pc = IF i \in {"S0", "R2"} THEN "n_range" ELSE "n_wait"]
    /\ UNCHANGED <<conn, dataDone, stdin, panicked, pump, rtc, log>>
    /\ UNCHANGED CoFrame

\* for i, chDone := range dones: the next key, in the map's arbitrary order;
\* if i == 0 { continue }; otherwise block on <-chDone.
WaiterRange ==
    /\ ~panicked
    /\ co.pc = "n_range"
    /\ IF co.left = {}
       THEN co' = [co EXCEPT !.pc = "n_stdin"]
       ELSE \E i \in co.left :
              co' = [co EXCEPT !.left = @ \ {i},
                               !.cur = IF i = "S0" THEN "none" ELSE i,
                               !.pc = IF i = "S0" THEN "n_range" ELSE "n_wait"]
    /\ UNCHANGED <<conn, dataDone, stdin, panicked, pump, rtc, log>>
    /\ UNCHANGED CoFrame

\* <-chDone
WaiterWait ==
    /\ ~panicked
    /\ co.pc = "n_wait"
    /\ pump[co.cur].pc = "signal"
    /\ pump' = SignalReceived(co.cur)
    /\ co' = [co EXCEPT !.pc = "n_range", !.cur = "none"]
    /\ UNCHANGED <<conn, dataDone, stdin, panicked, rtc, log>>
    /\ UNCHANGED CoFrame

\* if fds["0"] != "" { args.Stdin.Close() }: a nil args.Stdin panics.
WaiterCloseStdin ==
    /\ ~panicked
    /\ co.pc = "n_stdin"
    /\ IF "0" \in inp.fds /\ ~inp.Stdin
       THEN /\ panicked' = TRUE
            /\ co' = [co EXCEPT !.pc = "panic"]
            /\ UNCHANGED <<stdin, log>>
       ELSE /\ panicked' = panicked
            /\ co' = [co EXCEPT !.pc = IF conns = <<>> THEN "dd" ELSE "n_close", !.idx = 1]
            /\ stdin' = IF "0" \in inp.fds
                        THEN [stdin EXCEPT !.st = "closed", !.closes = @ + 1]
                        ELSE stdin
            /\ log' = IF "0" \in inp.fds
                      THEN [log EXCEPT !.order = Append(@, "Stdin")] ELSE log
    /\ UNCHANGED <<conn, dataDone, pump, rtc>>
    /\ UNCHANGED CoFrame

\* for _, conn := range conns { conn.Close() }
WaiterCloseConn ==
    /\ ~panicked
    /\ co.pc = "n_close"
    /\ conn' = CloseConn(conn, conns[co.idx])
    /\ log' = LogClose(conns[co.idx])
    /\ co' = [co EXCEPT !.idx = @ + 1,
                        !.pc = IF co.idx = Len(conns) THEN "dd" ELSE "n_close"]
    /\ UNCHANGED <<dataDone, stdin, panicked, pump, rtc>>
    /\ UNCHANGED CoFrame

\* ------------------------------------------------- the exec session, whole
LogInit == [early |-> {}, order |-> <<>>, errOpen |-> {}, errTasks |-> {}, why |-> "none",
            arrived |-> <<>>, wrFailed |-> FALSE, late |-> FALSE, barrier |-> FALSE,
            afterCancel |-> FALSE, reads |-> <<>>]

\* What the caller passes and what the server answers (fds: the channels the
\* operation metadata would name).  A call with an empty id or against a
\* server without the extension is given every combination; elsewhere fields
\* that the code never reads on a path are fixed on that path.
ExecInputs ==
    {i \in [mode : {"exec"},
            pre : {"ok", "emptyid", "exterr", "noext", "queryerr"},
            args : BOOLEAN, interactive : BOOLEAN, fds : SUBSET Chan,
            Control : BOOLEAN, Stdin : BOOLEAN, Stdout : BOOLEAN, Stderr : BOOLEAN,
            DataDone : BOOLEAN, bufferSize : {-1}, put : {"none"}, copy : {"network"}] :
        /\ (i.pre \in {"exterr", "queryerr"} \/ ~i.args) =>
              /\ ~i.interactive /\ i.fds = {} /\ ~i.Control /\ ~i.Stdin
              /\ ~i.Stdout /\ ~i.Stderr /\ ~i.DataDone
        /\ i.pre # "ok" => i.args
        /\ i.interactive => ~i.Stderr /\ i.fds \subseteq {"control", "0"}
        /\ ~i.interactive =>
              /\ ("1" \notin i.fds => ~i.Stdout)
              /\ ("2" \notin i.fds => ~i.Stderr)}

InitCommon ==
    /\ ret = "none"
    /\ conn = [c \in Conns |-> ConnNone]
    /\ conns = <<>>
    /\ dones = {}
    /\ ctl = "none"
    /\ co = CoNone
    /\ panicked = FALSE
    /\ pump = [p \in Pump |-> PumpNone]
    /\ rtc = RtcIdle
    /\ src = SrcIdle
    /\ delivered = <<>>
    /\ written = [p \in Pump |-> <<>>]
    /\ ctxDone = FALSE
    /\ mir = MirrorNone
    /\ prx = ProxyNone
    /\ log = LogInit

Init ==
    /\ inp \in ExecInputs
    /\ mainPc = "start"
    /\ dataDone = [st |-> IF inp.DataDone THEN "open" ELSE "nil", closes |-> 0, sends |-> 0]
    /\ stdin = [st |-> IF inp.Stdin THEN "open" ELSE "nil", closes |-> 0]
    /\ InitCommon

Next ==
    \/ Validate
    \/ OpenControl
    \/ Interactive
    \/ OpenStdin
    \/ OpenStdout
    \/ OpenStderr
    \/ SpawnWaiter
    \/ InteractiveStart
    \/ InteractiveWait
    \/ InteractiveClose
    \/ SignalDataDone
    \/ WaiterRange
    \/ WaiterWait
    \/ WaiterCloseStdin
    \/ WaiterCloseConn
    \/ RtcRead
    \/ SendStreamChunk("S0")
    \/ SendStreamClosed("S0")
    \/ \E p \in {"R0", "R1", "R2"} : RecvStreamMessage(p)
    \/ \E p \in {"R0", "R1", "R2"} : RecvStreamError(p)
    \/ \E c \in {"0", "1", "2"} : RemoteSend(c)
    \/ \E c \in {"0", "1", "2"} : RemoteFail(c)

Spec == Init /\ [][Next]_vars

FairSpec ==
    /\ Spec
    /\ WF_vars(Validate) /\ WF_vars(OpenControl) /\ WF_vars(Interactive)
    /\ WF_vars(OpenStdin) /\ WF_vars(OpenStdout) /\ WF_vars(OpenStderr)
    /\ WF_vars(SpawnWaiter)
    /\ WF_vars(InteractiveStart) /\ WF_vars(InteractiveWait) /\ WF_vars(InteractiveClose)
    /\ WF_vars(SignalDataDone)
    /\ WF_vars(WaiterRange) /\ WF_vars(WaiterWait) /\ WF_vars(WaiterCloseStdin)
    /\ WF_vars(WaiterCloseConn)
    /\ WF_vars(RtcRead) /\ WF_vars(SendStreamChunk("S0")) /\ WF_vars(SendStreamClosed("S0"))
    /\ \A p \in {"R0", "R1", "R2"} :
         WF_vars(RecvStreamMessage(p)) /\ WF_vars(RecvStreamError(p))
    /\ \A c \in {"0", "1", "2"} : WF_vars(RemoteFail(c))

\* ------------------------------------------------------ a stand-alone pump
\* One pump started by a caller that then receives from the returned channel:
\* WebsocketSendStreamWithContext(ctx, conn, r, bufferSize) of pkg/network or
\* WebsocketSendStream(conn, r, bufferSize) of shared on channel 0, or
\* WebsocketRecvStream(w, conn) on channel 1.
PumpInputs ==
    {i \in [mode : {"pump"}, pre : {"ok"}, args : {TRUE}, interactive : {FALSE},
            fds : {{}}, Control : {FALSE}, Stdin : BOOLEAN, Stdout : BOOLEAN,
            Stderr : {FALSE}, DataDone : {FALSE}, bufferSize : BufferSizes,
            put : {"S0", "R1"}, copy : {"network", "shared"}] :
        /\ i.put = "S0" => ~i.Stdout
        /\ i.put = "R1" => ~i.Stdin /\ i.bufferSize = -1
        /\ ~i.Stdin => i.bufferSize = -1 /\ i.copy = "network"}

PumpInit ==
    /\ inp \in PumpInputs
    /\ mainPc = "harness"
    /\ ret = "none"
    /\ conn = [c \in Conns |-> IF c = ConnOf(inp.put) THEN ConnOpen ELSE ConnNone]
    /\ conns = <<>>
    /\ dones = {}
    /\ ctl = "none"
    /\ co = CoNone
    /\ dataDone = [st |-> "nil", closes |-> 0, sends |-> 0]
    /\ stdin = [st |-> IF inp.Stdin THEN "open" ELSE "nil", closes |-> 0]
    /\ panicked = FALSE
    /\ pump = [p \in Pump |->
                 IF p # inp.put THEN PumpNone
                 ELSE IF p = "S0" THEN SendStreamStart(~inp.Stdin) ELSE RecvStreamStart]
    /\ rtc = IF inp.put = "S0" /\ inp.Stdin
             THEN RtcStart(inp.copy, inp.bufferSize) ELSE RtcIdle
    /\ src = SrcIdle
    /\ delivered = <<>>
    /\ written = [p \in Pump |-> <<>>]
    /\ ctxDone = FALSE
    /\ mir = MirrorNone
    /\ prx = ProxyNone
    /\ log = LogInit

\* The caller cancels the context of WebsocketSendStreamWithContext.
Cancel ==
    /\ inp.put = "S0"
    /\ inp.copy = "network"
    /\ ~ctxDone
    /\ ctxDone' = TRUE
    /\ UNCHANGED <<inp, mir, prx, mainPc, ret, conn, conns, dones, ctl, co, dataDone, stdin,
                   panicked, pump, rtc, src, delivered, written, log>>

\* The caller's <-ch meets the pump's ch <- true.
Receive(p) ==
    /\ pump[p].pc = "signal"
    /\ pump' = SignalReceived(p)
    /\ UNCHANGED <<inp, mir, prx, mainPc, ret, conn, conns, dones, ctl, co, dataDone, stdin,
                   panicked, rtc, src, delivered, written, ctxDone, log>>

PumpNext ==
    \/ RtcRead
    \/ SendStreamChunk("S0")
    \/ SendStreamClosed("S0")
    \/ SendStreamCancelled("S0")
    \/ RecvStreamMessage("R1")
    \/ RecvStreamError("R1")
    \/ RemoteSend("1")
    \/ RemoteFail("1")
    \/ Cancel
    \/ Receive("S0")
    \/ Receive("R1")

PumpSpec == PumpInit /\ [][PumpNext]_vars

\* Every goroutine that can take a step takes it; the source answers each Read.
PumpFairSpec ==
    /\ PumpSpec
    /\ WF_vars(RtcRead)
    /\ WF_vars(SendStreamChunk("S0")) /\ WF_vars(SendStreamClosed("S0"))
    /\ WF_vars(SendStreamCancelled("S0"))
    /\ WF_vars(RecvStreamMessage("R1")) /\ WF_vars(RecvStreamError("R1"))
    /\ WF_vars(Receive("S0")) /\ WF_vars(Receive("R1"))

\* ----------------------------------------- ReaderToChannel with its consumer
\* Either copy of ReaderToChannel, its queue drained by a consumer that takes
\* every chunk offered.
RtcInputs ==
    [mode : {"rtc"}, pre : {"ok"}, args : {TRUE}, interactive : {FALSE},
     fds : {{}}, Control : {FALSE}, Stdin : {TRUE}, Stdout : {FALSE},
     Stderr : {FALSE}, DataDone : {FALSE}, bufferSize : BufferSizes,
     put : {"none"}, copy : {"network", "shared"}]

RtcInit ==
    /\ inp \in RtcInputs
    /\ mainPc = "harness"
    /\ dataDone = [st |-> "nil", closes |-> 0, sends |-> 0]
    /\ stdin = [st |-> "open", closes |-> 0]
    /\ ret = "none"
    /\ conn = [c \in Conns |-> ConnNone]
    /\ conns = <<>>
    /\ dones = {}
    /\ ctl = "none"
    /\ co = CoNone
    /\ panicked = FALSE
    /\ pump = [p \in Pump |-> PumpNone]
    /\ rtc = RtcStart(inp.copy, inp.bufferSize)
    /\ src = SrcIdle
    /\ delivered = <<>>
    /\ written = [p \in Pump |-> <<>>]
    /\ ctxDone = FALSE
    /\ mir = MirrorNone
    /\ prx = ProxyNone
    /\ log = LogInit

\* buf, ok := <-in with ok: the consumer takes the chunk the producer offers.
Drain ==
    /\ rtc.pc = "send"
    /\ delivered' = Append(delivered, PendingChunk)
    /\ rtc' = RtcAfterSend
    /\ UNCHANGED <<inp, mir, prx, mainPc, ret, conn, conns, dones, ctl, co, dataDone, stdin,
                   panicked, pump, src, written, ctxDone, log>>

RtcNext == RtcRead \/ Drain

RtcSpec == RtcInit /\ [][RtcNext]_vars

\* ------------------------------------------- a mirror with its caller
\* WebsocketMirror(conn, w, r, nil, nil) or WebsocketConsoleMirror(conn, w, r)
\* of either package on an open connection, with a caller that receives from
\* the two returned channels.  r and w are not nil.
MirrorInputs ==
    [mode : {"mirror", "console"}, pre : {"ok"}, args : {TRUE}, interactive : {FALSE},
     fds : {{}}, Control : {FALSE}, Stdin : {TRUE}, Stdout : {TRUE},
     Stderr : {FALSE}, DataDone : {FALSE}, bufferSize : {-1},
     put : {"none"}, copy : {"network", "shared"}]

MirrorInit ==
    /\ inp \in MirrorInputs
    /\ mainPc = "harness"
    /\ dataDone = [st |-> "nil", closes |-> 0, sends |-> 0]
    /\ stdin = [st |-> "open", closes |-> 0]
    /\ ret = "none"
    /\ conn = [c \in Conns |-> IF c = "0" THEN ConnOpen ELSE ConnNone]
    /\ conns = <<>>
    /\ dones = {}
    /\ ctl = "none"
    /\ co = CoNone
    /\ panicked = FALSE
    /\ pump = [p \in Pump |-> PumpNone]
    /\ rtc = RtcStart(inp.copy, inp.bufferSize)
    /\ src = SrcIdle
    /\ delivered = <<>>
    /\ written = [p \in Pump |-> <<>>]
    /\ ctxDone = FALSE
    /\ mir = MirrorStart
    /\ prx = ProxyNone
    /\ log = LogInit

MirrorNext ==
    \/ RtcRead
    \/ DefaultReaderChunk
    \/ DefaultReaderClosed
    \/ DefaultWriterMessage
    \/ DefaultWriterError
    \/ RemoteSend("0")
    \/ RemoteFail("0")
    \/ MirrorReceive("rd")
    \/ MirrorReceive("wr")

MirrorSpec == MirrorInit /\ [][MirrorNext]_vars

\* -------------------------------------------------- a proxy with its caller
\* WebsocketProxy(source, target) of either package (the two copies are the
\* same code) on two open connections, with a caller that receives from the
\* returned channel.
ProxyInputs ==
    [mode : {"proxy"}, pre : {"ok"}, args : {TRUE}, interactive : {FALSE},
     fds : {{}}, Control : {FALSE}, Stdin : {FALSE}, Stdout : {FALSE},
     Stderr : {FALSE}, DataDone : {FALSE}, bufferSize : {-1},
     put : {"none"}, copy : {"network"}]

ProxyInit ==
    /\ inp \in ProxyInputs
    /\ mainPc = "harness"
    /\ dataDone = [st |-> "nil", closes |-> 0, sends |-> 0]
    /\ stdin = [st |-> "nil", closes |-> 0]
    /\ ret = "none"
    /\ conn = [c \in Conns |-> IF c \in {"source", "target"} THEN ConnOpen ELSE ConnNone]
    /\ conns = <<>>
    /\ dones = {}
    /\ ctl = "none"
    /\ co = CoNone
    /\ panicked = FALSE
    /\ pump = [p \in Pump |-> PumpNone]
    /\ rtc = RtcIdle
    /\ src = SrcIdle
    /\ delivered = <<>>
    /\ written = [p \in Pump |-> <<>>]
    /\ ctxDone = FALSE
    /\ mir = MirrorNone
    /\ prx = ProxyStart
    /\ log = LogInit

ProxyNext ==
    \/ \E f \in Fwd : ForwardMessage(f)
    \/ \E f \in Fwd : ForwardError(f)
    \/ CloserSelect
    \/ CloserCloseSource
    \/ CloserCloseTarget
    \/ ProxyReceive
    \/ \E c \in {"source", "target"} : RemoteSend(c)
    \/ \E c \in {"source", "target"} : RemoteFail(c)

ProxySpec == ProxyInit /\ [][ProxyNext]_vars

\* Every goroutine that can take a step takes it, and the caller receives.
ProxyFairSpec ==
    /\ ProxySpec
    /\ \A f \in Fwd : WF_vars(ForwardMessage(f)) /\ WF_vars(ForwardError(f))
    /\ WF_vars(CloserSelect) /\ WF_vars(CloserCloseSource) /\ WF_vars(CloserCloseTarget)
    /\ WF_vars(ProxyReceive)

\* ------------------------------------------ every use of the stream layer
\* An exec session, a mirror with its caller, or a proxy with its caller.
AllInit == Init \/ MirrorInit \/ ProxyInit

AllNext == Next \/ MirrorNext \/ ProxyNext

AllSpec == AllInit /\ [][AllNext]_vars

\* ================================================================== claims
\* Helpers of the properties below.
Max(a, b) == IF a >= b THEN a ELSE b

RECURSIVE Flatten(_)
Flatten(ss) == IF ss = <<>> THEN <<>> ELSE Head(ss) \o Flatten(Tail(ss))

\* An exec session has completed: ExecuteContainer returned without error and
\* the session goroutine, if one was started, has run to its end.
SessionCompleted == ret = "ok" /\ co.pc \in {"none", "done"}

\* C1: once an exec session has completed, every connection it opened has been
\* closed exactly once (Close calls = opens, the control connection included).
C1_EveryConnClosedOnce ==
    SessionCompleted => \A c \in Chan : conn[c].closes = conn[c].opens

\* C2: the Coordinator closes a connection only after every pump bound to that
\* connection has signalled completion.
C2_CloseAfterPumpsDone == log.early = {}

\* C3: when ExecuteContainer returns an error, no connection opened for the
\* session is still open.
C3_NoOpenConnAtError == ret = "err" => log.errOpen = {}

\* C4: when ExecuteContainer returns an error, no pump and no control handler
\* has been started.
C4_NoTaskAtError == ret = "err" => log.errTasks = {}

\* C5: a pump that has left its loop is at its Completion Signal or past it;
\* the signal never fires twice, and a pump that has ended fired it exactly once.
C5_CompletionSignalOnce ==
    /\ \A p \in Pump : Fired(p) <= 1 /\ (pump[p].pc = "done" => Fired(p) = 1)
    /\ log.why # "none" => pump[inp.put].pc \in {"signal", "done"}

\* A pump ended after a failed local write, its signal received by the caller.
C5_Witness ==
    /\ inp.put = "R1" /\ pump["R1"].pc = "done" /\ log.why = "shortwrite"
    /\ Fired("R1") = 1

\* C6: a session that started with DataDone supplied eventually has DataDone
\* closed, exactly once, and no value is ever sent on it.
C6_DataDoneEventuallyClosed ==
    [](ret = "ok" /\ inp.args /\ inp.DataDone
         => <>(dataDone.st = "closed" /\ dataDone.closes = 1 /\ dataDone.sends = 0))

\* The chunks are consecutive intervals of the source that cover [0, total).
Tiles(chunks, total) ==
    /\ \A i \in 1..Len(chunks) :
         chunks[i].from = IF i = 1 THEN 0 ELSE chunks[i - 1].from + chunks[i - 1].len
    /\ total = IF chunks = <<>> THEN 0
               ELSE chunks[Len(chunks)].from + chunks[Len(chunks)].len

\* C7: when ReaderToChannel of pkg/network has closed its queue, the chunks it
\* delivered are exactly the bytes its source returned, in order.
C7_AllBytesDelivered ==
    inp.copy = "network" /\ rtc.pc = "closed" => Tiles(delivered, src.pos)

C9_ProducerTerminates ==
    []((inp.put = "S0" /\ rtc.pc # "none" /\ pump["S0"].pc \in {"signal", "done"})
         => <>(rtc.pc = "closed"))

\* The messages before the first one that is not a readable binary message.
RECURSIVE BinaryPrefix(_)
BinaryPrefix(ms) ==
    IF ms = <<>> \/ Head(ms).mt # "binary" \/ Head(ms).bad THEN <<>>
    ELSE <<Head(ms).data>> \o BinaryPrefix(Tail(ms))

\* C10: when an inbound pump whose writer took every write in full signals
\* completion, it has written exactly the payloads of the binary messages that
\* arrived before the first transport error, close or text message, in order.
C10_WritesBinaryPrefix ==
    (/\ inp.put = "R1" /\ inp.Stdout
     /\ pump["R1"].pc \in {"signal", "done"}
     /\ log.why \notin {"shortwrite", "writeerr"})
        => written["R1"] = Flatten(BinaryPrefix(log.arrived))

\* Two payloads were written, the barrier stopped the pump, and a binary
\* message that arrived behind the barrier was left alone.
C10_Witness ==
    /\ inp.put = "R1" /\ inp.Stdout
    /\ pump["R1"].pc = "done" /\ log.why = "barrier"
    /\ Len(BinaryPrefix(log.arrived)) = 2
    /\ Len(log.arrived) = 4 /\ log.arrived[4].mt = "binary"
    /\ written["R1"] = Flatten(BinaryPrefix(log.arrived))

\* C11: the outbound pump of pkg/network sends no frame after a Write to a
\* binary-message writer has failed.
C11_NoFrameAfterWriteFailure ==
    inp.put = "S0" /\ inp.copy = "network" => ~log.late

\* The frames of type mt handed to connection c.
FramesOf(c, mt) == {i \in 1..Len(conn[c].sent) : conn[c].sent[i].mt = mt}

\* C12: when the outbound pump of pkg/network has left its loop on the end of
\* its reader, exactly one text message has been sent, after the last binary frame.
C12_BarrierOnReaderEnd ==
    (/\ inp.put = "S0" /\ inp.copy = "network"
     /\ pump["S0"].pc \in {"signal", "done"} /\ log.why = "eof")
        => /\ Cardinality(FramesOf("0", "text")) = 1
           /\ conn["0"].sent[Len(conn["0"].sent)].mt = "text"

\* C13: WebsocketMirror and WebsocketConsoleMirror never close the connection
\* they are given: it is open, with no Close call, at every point of both
\* halves and after both Completion Signals have fired.
C13_MirrorLeavesConnOpen ==
    inp.mode \in {"mirror", "console"} =>
        conn["0"].st = "open" /\ conn["0"].closes = 0

\* Both halves have ended and the caller holds both signals; the reader half
\* sent the close message after a failed write, the writer half saw a close
\* message.
C13_Witness ==
    /\ inp.mode = "mirror"
    /\ mir.rd = "done" /\ mir.wr = "done" /\ mir.rdGot = 1 /\ mir.wrGot = 1
    /\ mir.rdWhy = "write" /\ mir.wrWhy = "close"
    /\ FramesOf("0", "close") # {}
    /\ conn["0"].st = "open"

\* C14: in WebsocketConsoleMirror, when the reader half has ended on the end
\* of the local reader, it has sent the text barrier and a close message.
C14_ConsoleCloseOnEof ==
    (inp.mode = "console" /\ mir.rdWhy = "eof")
        => FramesOf("0", "text") # {} /\ FramesOf("0", "close") # {}

\* C16: WebsocketProxy calls Close at most once on each connection, its
\* combined Completion Signal fires at most once and only after both Close
\* calls, and once a forwarding direction has stopped both connections are
\* eventually closed and the signal has fired exactly once.
C16_ProxyClosesBothThenSignals ==
    /\ [](/\ conn["source"].closes <= 1 /\ conn["target"].closes <= 1
          /\ prx.fired <= 1
          /\ prx.closer \in {"signal", "done"} =>
                /\ conn["source"].closes = 1 /\ conn["target"].closes = 1
                /\ conn["source"].st = "closed" /\ conn["target"].st = "closed"
          /\ prx.fired = 1 => prx.closer = "done")
    /\ (\E f \in Fwd : prx.fwd[f] \in {"signal", "done"})
          ~> (/\ conn["source"].st = "closed" /\ conn["target"].st = "closed"
              /\ prx.fired = 1)

\* Messages were forwarded in both directions, then a direction stopped, both
\* connections were closed and the caller received the combined signal.
C16_Witness ==
    /\ conn["source"].sent # <<>> /\ conn["target"].sent # <<>>
    /\ conn["source"].closes = 1 /\ conn["target"].closes = 1
    /\ prx.fired = 1

\* C17: once the proxy has closed both connections, both forwarding tasks
\* eventually terminate.
C17_ForwardersTerminate ==
    [](prx.closer \in {"signal", "done"} => <>(\A f \in Fwd : prx.fwd[f] = "done"))

\* The steps of the non-interactive shutdown, in the order the session must
\* take them: local stdin if channel 0 is in the metadata, each connection of
\* the session's list, DataDone.
ShutdownOrder ==
    (IF "0" \in inp.fds THEN <<"Stdin">> ELSE <<>>) \o conns \o <<"DataDone">>

IsPrefix(a, b) == Len(a) <= Len(b) /\ a = SubSeq(b, 1, Len(a))

\* C15: in a non-interactive session the shutdown steps taken so far are a
\* prefix of: stdin closed (iff channel 0 is in the metadata), each listed
\* connection closed once, DataDone closed; no step is taken, and DataDone is
\* not closed, before the Completion Signal of every started inbound pump has
\* been observed.
C15_ShutdownOrder ==
    (inp.mode = "exec" /\ ~inp.interactive) =>
        /\ IsPrefix(log.order, ShutdownOrder)
        /\ (log.order # <<>> \/ dataDone.st = "closed") =>
               \A p \in dones \ {"S0"} : pump[p].pc = "done"
        /\ stdin.closes = (IF log.order # <<>> /\ "0" \in inp.fds THEN 1 ELSE 0)
        /\ dataDone.st = "closed" =>
               /\ log.order = ShutdownOrder
               /\ \A i \in 1..Len(conns) : conn[conns[i]].closes = 1

\* A session with all of stdin, stdout and stderr has shut down: five steps.
C15_Witness ==
    /\ inp.mode = "exec" /\ ~inp.interactive
    /\ {"0", "1", "2"} \subseteq inp.fds
    /\ dataDone.st = "closed"
    /\ log.order = <<"Stdin", "0", "1", "2", "DataDone">>
    /\ stdin.closes = 1

\* C18: in an interactive session with local stdin and stdout, DataDone is
\* closed only once local stdin has reported its end and a barrier has been
\* received on channel 0.
C18_DataDoneAfterStdinAndBarrier ==
    (/\ inp.mode = "exec" /\ inp.interactive /\ inp.Stdin /\ inp.Stdout
     /\ dataDone.st = "closed")
        => src.ended /\ log.barrier

\* C19: a session that started has opened exactly one connection per channel
\* of the operation metadata.
C19_OneConnPerChannel ==
    (inp.mode = "exec" /\ inp.args /\ ret = "ok") =>
        /\ {c \in Chan : conn[c].opens > 0} = inp.fds
        /\ \A c \in Chan : conn[c].opens <= 1

\* C20: a call with an empty id or against a server without the
\* container_exec extension returns an error; no connection is opened, no pump,
\* control handler or session goroutine is started and DataDone is untouched.
C20_FailsFast ==
    (inp.mode = "exec" /\ inp.pre \in {"emptyid", "noext"}) =>
        /\ mainPc = "returned" => ret = "err"
        /\ ret # "ok"
        /\ \A c \in Chan : conn[c].st = "none" /\ conn[c].opens = 0
        /\ TasksStarted = {} /\ co.pc = "none" /\ ctl = "none"
        /\ dataDone = [st |-> IF inp.DataDone THEN "open" ELSE "nil",
                       closes |-> 0, sends |-> 0]
        /\ ~panicked

\* The server lacks the extension; the caller supplied a control handler,
\* DataDone and stdout for a session with channels: the error came back.
C20_Witness ==
    /\ inp.mode = "exec" /\ inp.pre = "noext"
    /\ inp.Control /\ inp.DataDone /\ inp.Stdout
    /\ {"control", "1"} \subseteq inp.fds
    /\ ret = "err"
    /\ dataDone.st = "open"

\* C21: a non-interactive session whose metadata names channel 0 and whose
\* caller supplied no local stdin runs without a fault.
C21_NoFaultWithoutStdin ==
    (/\ inp.mode = "exec" /\ ~inp.interactive
     /\ "0" \in inp.fds /\ ~inp.Stdin)
        => ~panicked /\ co.pc # "panic"

\* C22: once the cancellation signal of WebsocketSendStreamWithContext has
\* fired, no further binary frame reaches the connection.
C22_NoFrameAfterCancel ==
    inp.put = "S0" /\ inp.copy = "network" => ~log.afterCancel

\* The messages the inbound pump on connection c has taken from the connection.
Consumed(c) == SubSeq(log.arrived, 1, Len(log.arrived) - Len(conn[c].inq))

\* C23: an inbound pump without a local writer stores nothing and keeps
\* receiving: while it runs it has taken only readable binary messages; when it
\* has stopped, it stopped on a transport error (of NextReader or of reading the
\* payload), a close message or a barrier, and that message is the first one
\* that arrived after the readable binary messages.
C23_NilWriterDiscards ==
    (inp.put = "R1" /\ ~inp.Stdout) =>
        /\ written["R1"] = <<>>
        /\ pump["R1"].pc = "run" =>
               Len(Consumed("1")) = Len(BinaryPrefix(Consumed("1")))
        /\ pump["R1"].pc \in {"signal", "done"} =>
               /\ log.why \in {"transport", "readall", "close", "barrier"}
               /\ log.why = "transport" =>
                      Len(Consumed("1")) = Len(BinaryPrefix(log.arrived))
               /\ log.why # "transport" =>
                      Len(Consumed("1")) = Len(BinaryPrefix(log.arrived)) + 1

\* Without a writer the pump took three binary messages, then a barrier
\* stopped it; nothing was stored.
C23_Witness ==
    /\ inp.put = "R1" /\ ~inp.Stdout
    /\ pump["R1"].pc = "done" /\ log.why = "barrier"
    /\ Len(BinaryPrefix(log.arrived)) = 3 /\ Len(Consumed("1")) = 4
    /\ written["R1"] = <<>>

\* C24: in an interactive session without local stdin or without local stdout
\* no connection is opened for channel 0, no pump and no session goroutine is
\* started, and DataDone, if supplied, is untouched until ExecuteContainer
\* returns and closed exactly once when it has returned without error.
C24_InteractiveWithoutEndpoints ==
    (/\ inp.mode = "exec" /\ inp.pre = "ok" /\ inp.args
     /\ inp.interactive /\ ~(inp.Stdin /\ inp.Stdout))
        => /\ conn["0"].st = "none" /\ conn["0"].opens = 0
           /\ \A p \in Pump : pump[p].pc = "none"
           /\ co.pc = "none" /\ rtc.pc = "none"
           /\ ~panicked
           /\ dataDone.closes = (IF ret = "ok" /\ inp.DataDone THEN 1 ELSE 0)
           /\ dataDone.st = (IF ~inp.DataDone THEN "nil"
                             ELSE IF ret = "ok" THEN "closed" ELSE "open")

\* Channel 0 is in the metadata and stdin was supplied, stdout was not: the
\* call returned with DataDone closed and nothing opened for channel 0.
C24_Witness ==
    /\ inp.mode = "exec" /\ inp.interactive
    /\ inp.Stdin /\ ~inp.Stdout /\ inp.DataDone /\ "0" \in inp.fds
    /\ ret = "ok"
    /\ dataDone.st = "closed" /\ dataDone.closes = 1
    /\ conn["0"].opens = 0

\* C25: once the session goroutine has run to its end (the connections are
\* closed, DataDone is closed), every pump the session started eventually
\* terminates.
C25_PumpsTerminate ==
    [](inp.mode = "exec" /\ co.pc = "done"
         => <>(\A p \in Pump : pump[p].pc \in {"none", "done"}))

\* The tasks that write data messages to connection c: a running outbound
\* pump bound to it, the reader half of a mirror, a forwarding task whose out
\* is c.
Writers(c) ==
    {p \in {"S0"} : ConnOf(p) = c /\ pump[p].pc = "run"}
        \cup (IF c = "0" /\ mir.rd = "run" THEN {"rd"} ELSE {})
        \cup {f \in Fwd : OutOf(f) = c /\ prx.fwd[f] = "run"}

\* The tasks that read messages from connection c: a running inbound pump
\* bound to it, the writer half of a mirror, a forwarding task whose in is c.
Readers(c) ==
    {p \in {"R0", "R1", "R2"} : ConnOf(p) = c /\ pump[p].pc = "run"}
        \cup (IF c = "0" /\ mir.wr = "run" THEN {"wr"} ELSE {})
        \cup {f \in Fwd : InOf(f) = c /\ prx.fwd[f] = "run"}

\* C26: in every state of an exec session, a mirror or a proxy, each
\* connection has at most one task writing data messages to it and at most one
\* task reading messages from it.
C26_OneWriterOneReader ==
    \A c \in Conns : Cardinality(Writers(c)) <= 1 /\ Cardinality(Readers(c)) <= 1

\* An interactive session with its outbound and its inbound pump both running
\* on the connection of channel 0.
C26_Witness ==
    /\ inp.mode = "exec" /\ inp.interactive
    /\ Writers("0") = {"S0"} /\ Readers("0") = {"R0"}

\* C27: on the same sequence of Read results and the same buffer size, the
\* pkg/network copy and the shared copy of ReaderToChannel deliver the same
\* sequence of chunks before they close their queue.
C27_CopiesEquivalent ==
    (inp.mode = "rtc" /\ rtc.pc = "closed") =>
        RunCopy("network", RtcStart("network", inp.bufferSize), log.reads)
            = RunCopy("shared", RtcStart("shared", inp.bufferSize), log.reads)
====
